---- MODULE Spec2Model ----
(***************************************************************************)
(* Configuration resolution of the trading framework (config.py):          *)
(* the FirebaseConfig singleton, the TradingConfig schema, and             *)
(* ConfigManager (__init__, _load_config, save_config).                    *)
(*                                                                         *)
(* Strings are atomic values, except the text handed to int(), which is a  *)
(* sequence of one-character strings so that parsing is computed.          *)
(***************************************************************************)
EXTENDS Integers, Sequences, FiniteSets, TLC

\* Longest UPDATE_INTERVAL text drawn for the environment.
MaxLen == 2

----------------------------------------------------------------------------
\* Values of the dynamically typed program: one record shape for all of them.

NoneV == [t |-> "none", s |-> "", n |-> 0, l |-> <<>>]

Str(x) == [t |-> "str", s |-> x, n |-> 0, l |-> <<>>]

\* A string given by its characters (used where the text may be a numeral).
Txt(cs) == [t |-> "str", s |-> "", n |-> 0, l |-> cs]

Int_(x) == [t |-> "int", s |-> "", n |-> x, l |-> <<>>]

List(xs) == [t |-> "list", s |-> "", n |-> 0, l |-> xs]

Map == [t |-> "map", s |-> "", n |-> 0, l |-> <<>>]

\* The characters of a str value; an atomic name counts as one opaque
\* character that is no digit, sign, underscore or blank.
StrChars(v) == IF v.s = "" THEN v.l ELSE <<v.s>>

----------------------------------------------------------------------------
\* Enumerations and schema.

TradingMode == {"paper", "live", "backtest"}

ExchangeType == {"binance", "coinbase", "kraken", "bybit"}

FieldNames == {"mode", "exchange", "api_key", "api_secret", "symbols", "update_interval"}

\* The schema default of update_interval, in seconds.
DefaultUpdateInterval == 60

\* A plausible slip: the schema default taken to be the fallback's symbol list.
SchemaDefaultsSingleSymbol ==
    [mode |-> "paper", exchange |-> "binance", api_key |-> NoneV, api_secret |-> NoneV,
     symbols |-> <<"BTC/USDT">>, update_interval |-> DefaultUpdateInterval]

\* TradingConfig's field defaults.
SchemaDefaults ==
    [mode |-> "paper", exchange |-> "binance", api_key |-> NoneV, api_secret |-> NoneV,
     symbols |-> <<"BTC/USDT", "ETH/USDT">>, update_interval |-> DefaultUpdateInterval]

----------------------------------------------------------------------------
\* int(text): blanks stripped, one optional sign, decimal digits with single
\* underscores between digits.

DigitVal(c) ==
    CASE c = "0" -> 0 [] c = "1" -> 1 [] c = "2" -> 2 [] c = "3" -> 3 [] c = "4" -> 4
      [] c = "5" -> 5 [] c = "6" -> 6 [] c = "7" -> 7 [] c = "8" -> 8 [] c = "9" -> 9
      [] OTHER -> -1

IsDigit(c) == DigitVal(c) >= 0

IsSpace(c) == c = " "

RECURSIVE LStrip(_)
LStrip(cs) == IF cs # <<>> /\ IsSpace(Head(cs)) THEN LStrip(Tail(cs)) ELSE cs

RECURSIVE RStrip(_)
RStrip(cs) ==
    IF cs # <<>> /\ IsSpace(cs[Len(cs)]) THEN RStrip(SubSeq(cs, 1, Len(cs) - 1)) ELSE cs

\* Digits with single underscores between them: [ok, val] of the body.
RECURSIVE ParseDigits(_, _, _)
ParseDigits(cs, acc, prevDigit) ==
    IF cs = <<>> THEN [ok |-> prevDigit, val |-> acc]
    ELSE IF IsDigit(Head(cs)) THEN ParseDigits(Tail(cs), acc * 10 + DigitVal(Head(cs)), TRUE)
    ELSE IF Head(cs) = "_" /\ prevDigit THEN ParseDigits(Tail(cs), acc, FALSE)
    ELSE [ok |-> FALSE, val |-> 0]

IntParse(cs) ==
    LET core == RStrip(LStrip(cs))
        signed == core # <<>> /\ Head(core) \in {"-", "+"}
        body == IF signed THEN Tail(core) ELSE core
        r == ParseDigits(body, 0, FALSE)
    IN IF ~r.ok THEN [ok |-> FALSE, val |-> 0]
       ELSE [ok |-> TRUE, val |-> IF signed /\ Head(core) = "-" THEN 0 - r.val ELSE r.val]

----------------------------------------------------------------------------
\* json.loads on the SYMBOLS texts that occur.

JsonBtc == "[\"BTC/USDT\"]"

JsonEth == "[\"ETH/USDT\"]"

JsonOpenList == "[\"ETH/USDT\""

JsonString == "\"BTC/USDT\""

JsonLoads(s) ==
    CASE s = JsonBtc -> [ok |-> TRUE, val |-> List(<<"BTC/USDT">>)]
      [] s = JsonEth -> [ok |-> TRUE, val |-> List(<<"ETH/USDT">>)]
      [] s = "[]" -> [ok |-> TRUE, val |-> List(<<>>)]
      [] s = JsonString -> [ok |-> TRUE, val |-> Str("BTC/USDT")]
      [] s = "{}" -> [ok |-> TRUE, val |-> Map]
      [] s = "null" -> [ok |-> TRUE, val |-> NoneV]
      [] OTHER -> [ok |-> FALSE, val |-> NoneV]

----------------------------------------------------------------------------
\* TradingConfig(**kwargs): pydantic validation of each field (unknown keys are
\* ignored, absent fields take the schema default, use_enum_values stores the
\* plain string).

ValidEnum(kw, f, members) == f \notin DOMAIN kw \/ (kw[f].t = "str" /\ kw[f].s \in members)

ValidOptStr(kw, f) == f \notin DOMAIN kw \/ kw[f].t \in {"none", "str"}

ValidList(kw, f) == f \notin DOMAIN kw \/ kw[f].t = "list"

ValidInt(kw, f) ==
    \/ f \notin DOMAIN kw
    \/ kw[f].t = "int"
    \/ kw[f].t = "str" /\ IntParse(StrChars(kw[f])).ok

CoerceInt(v) == IF v.t = "int" THEN v.n ELSE IntParse(StrChars(v)).val

TradingConfig(kw) ==
    LET ok == /\ ValidEnum(kw, "mode", TradingMode)
              /\ ValidEnum(kw, "exchange", ExchangeType)
              /\ ValidOptStr(kw, "api_key")
              /\ ValidOptStr(kw, "api_secret")
              /\ ValidList(kw, "symbols")
              /\ ValidInt(kw, "update_interval")
        d == SchemaDefaults
    IN IF ~ok THEN [ok |-> FALSE, cfg |-> d]
       ELSE [ok |-> TRUE,
             cfg |-> [mode |-> IF "mode" \in DOMAIN kw THEN kw["mode"].s ELSE d.mode,
                      exchange |-> IF "exchange" \in DOMAIN kw THEN kw["exchange"].s
                                   ELSE d.exchange,
                      api_key |-> IF "api_key" \in DOMAIN kw THEN kw["api_key"]
                                  ELSE d.api_key,
                      api_secret |-> IF "api_secret" \in DOMAIN kw THEN kw["api_secret"]
                                     ELSE d.api_secret,
                      symbols |-> IF "symbols" \in DOMAIN kw THEN kw["symbols"].l
                                  ELSE d.symbols,
                      update_interval |-> IF "update_interval" \in DOMAIN kw
                                          THEN CoerceInt(kw["update_interval"])
                                          ELSE d.update_interval]]

----------------------------------------------------------------------------
\* The process environment: each variable is unset (<<>>) or set (<<text>>).

Unset == <<>>

Getenv(v, default) == IF v = Unset THEN default ELSE v[1]

\* os.getenv(name) without a default: None when unset.
GetenvOpt(v) == IF v = Unset THEN NoneV ELSE Str(v[1])

\* A plausible slip: SYMBOLS consulted without its own default, so that the
\* schema default applies when it is unset.
EnvKwargsNoSymbolsDefault(e) ==
    LET base == ("mode" :> Str(Getenv(e.TRADING_MODE, "paper")))
                @@ ("exchange" :> Str(Getenv(e.EXCHANGE, "binance")))
                @@ ("api_key" :> GetenvOpt(e.API_KEY))
                @@ ("api_secret" :> GetenvOpt(e.API_SECRET))
                @@ ("update_interval" :>
                      Int_(IntParse(Getenv(e.UPDATE_INTERVAL, <<"6", "0">>)).val))
    IN IF e.SYMBOLS = Unset THEN base
       ELSE base @@ ("symbols" :> JsonLoads(e.SYMBOLS[1]).val)

\* The keyword arguments the fallback passes to TradingConfig.
EnvKwargs(e) ==
    ("mode" :> Str(Getenv(e.TRADING_MODE, "paper")))
    @@ ("exchange" :> Str(Getenv(e.EXCHANGE, "binance")))
    @@ ("api_key" :> GetenvOpt(e.API_KEY))
    @@ ("api_secret" :> GetenvOpt(e.API_SECRET))
    @@ ("symbols" :> JsonLoads(Getenv(e.SYMBOLS, JsonBtc)).val)
    @@ ("update_interval" :> Int_(IntParse(Getenv(e.UPDATE_INTERVAL, <<"6", "0">>)).val))

\* A plausible slip: every failure of the fallback caught, defaults installed.
LoadFromEnvSwallows(e) ==
    LET j == JsonLoads(Getenv(e.SYMBOLS, JsonBtc))
        i == IntParse(Getenv(e.UPDATE_INTERVAL, <<"6", "0">>))
        r == TradingConfig(EnvKwargs(e))
    IN IF j.ok /\ i.ok /\ r.ok
       THEN [ok |-> TRUE, cfg |-> r.cfg, exc |-> "none", reads |-> 6]
       ELSE [ok |-> TRUE, cfg |-> SchemaDefaults, exc |-> "none", reads |-> 6]

\* The fallback of _load_config: the arguments are evaluated in order, so a
\* json.loads failure ends it before UPDATE_INTERVAL is read and an int()
\* failure before validation; only ValidationError is caught (and re-raised).
LoadFromEnv(e) ==
    LET j == JsonLoads(Getenv(e.SYMBOLS, JsonBtc))
        i == IntParse(Getenv(e.UPDATE_INTERVAL, <<"6", "0">>))
        r == TradingConfig(EnvKwargs(e))
    IN IF ~j.ok THEN [ok |-> FALSE, cfg |-> SchemaDefaults, exc |-> "JSONDecodeError", reads |-> 5]
       ELSE IF ~i.ok THEN [ok |-> FALSE, cfg |-> SchemaDefaults, exc |-> "ValueError", reads |-> 6]
       ELSE IF ~r.ok THEN [ok |-> FALSE, cfg |-> SchemaDefaults, exc |-> "ValidationError", reads |-> 6]
       ELSE [ok |-> TRUE, cfg |-> r.cfg, exc |-> "none", reads |-> 6]

----------------------------------------------------------------------------
\* Inputs: environments and remote documents.

EnvChars == {"0", "7", "-", " ", "x"}

\* Texts of UPDATE_INTERVAL: every text over EnvChars of length 0..MaxLen.
IntervalTexts == UNION {[1..k -> EnvChars] : k \in 0..MaxLen}

\* Environments: every combination of the named variables with
\* UPDATE_INTERVAL unset, and every UPDATE_INTERVAL text with TRADING_MODE and
\* SYMBOLS set or not.
Envs ==
    [TRADING_MODE : {Unset, <<"live">>, <<"bogus">>},
     EXCHANGE : {Unset, <<"kraken">>, <<"bogus">>},
     API_KEY : {Unset, <<"k">>},
     API_SECRET : {Unset, <<"s">>},
     SYMBOLS : {Unset, <<JsonEth>>, <<JsonOpenList>>, <<JsonString>>},
     UPDATE_INTERVAL : {Unset}]
    \cup
    [TRADING_MODE : {Unset, <<"live">>},
     EXCHANGE : {Unset},
     API_KEY : {Unset},
     API_SECRET : {Unset},
     SYMBOLS : {Unset, <<JsonOpenList>>},
     UPDATE_INTERVAL : {<<t>> : t \in IntervalTexts}]

\* Documents written by callers of save_config.
SaveData ==
    { ("mode" :> Str("backtest")),
      ("exchange" :> Str("bybit")) @@ ("update_interval" :> Int_(15)) }

\* Contents the document config/trading_config may have.
Docs ==
    SaveData \cup
    { <<>>,
      ("mode" :> Str("live")) @@ ("exchange" :> Str("kraken")) @@ ("api_key" :> Str("k"))
        @@ ("api_secret" :> Str("s")) @@ ("symbols" :> List(<<"ETH/USDT">>))
        @@ ("update_interval" :> Int_(30)),
      ("mode" :> Str("bogus")),
      ("exchange" :> Str("bogus")),
      ("mode" :> NoneV),
      ("update_interval" :> Int_(0)),
      ("update_interval" :> Int_(-5)),
      ("update_interval" :> Txt(<<"3", "0">>)),
      ("update_interval" :> Txt(<<"x">>)),
      ("symbols" :> Str("BTC/USDT")),
      ("mode" :> Str("paper")) @@ ("leverage" :> Int_(3)) }

\* The remote store: no document (<<>>) or the document (<<d>>).
RemoteStates == {<<>>} \cup {<<d>> : d \in Docs}

----------------------------------------------------------------------------
VARIABLES
    pc,             \* position of the process: new, get_db, load, env, ready, failed
    env,            \* the process environment
    remoteDoc,      \* the document config/trading_config in the remote store
    fbInitialized,  \* FirebaseConfig._initialized
    fbDb,           \* FirebaseConfig._db: "None" or "client"
    db,             \* ConfigManager.db
    doc,            \* what doc_ref.get() returned in _load_config: <<>> or <<d>>
    config,         \* ConfigManager.config: <<>> (None) or <<cfg>>
    source,         \* where config was resolved from: none, remote, env
    remoteFailure,  \* why the remote lookup did not produce the config
    readAttempts,   \* doc_ref.get() calls of this resolution
    envReads,       \* os.getenv calls of _load_config
    raised,         \* the exception that left __init__, or none
    lastSave        \* the save_config call that has just returned, if the last
                    \* step was one

vars == <<pc, env, remoteDoc, fbInitialized, fbDb, db, doc, config, source, remoteFailure,
          readAttempts, envReads, raised, lastSave>>

NoSave == [called |-> FALSE, data |-> <<>>, attempts |-> 0,
           written |-> FALSE, outcome |-> "none"]

Init ==
    /\ pc = "new"
    /\ env \in Envs
    /\ remoteDoc \in RemoteStates
    /\ fbInitialized = FALSE
    /\ fbDb = "None"
    /\ db = "None"
    /\ doc = <<>>
    /\ config = <<>>
    /\ source = "none"
    /\ remoteFailure = "none"
    /\ readAttempts = 0
    /\ envReads = 0
    /\ raised = "none"
    /\ lastSave = NoSave

\* FirebaseConfig.initialize_firebase: the handle is set on success; any
\* exception is caught and leaves the class uninitialized.
initialize_firebase(succeeds) ==
    IF succeeds
    THEN /\ fbDb' = "client"
         /\ fbInitialized' = TRUE
    ELSE /\ fbDb' = fbDb
         /\ fbInitialized' = FALSE

\* ConfigManager.__init__ up to FirebaseConfig(): config is None, the singleton
\* initializes itself when it is not initialized yet.
FirebaseConfigInit ==
    /\ pc = "new"
    /\ config' = <<>>
    /\ IF ~fbInitialized
       THEN \E succeeds \in BOOLEAN : initialize_firebase(succeeds)
       ELSE UNCHANGED <<fbDb, fbInitialized>>
    /\ pc' = "get_db"
    /\ UNCHANGED <<env, remoteDoc, db, doc, source, remoteFailure, readAttempts, envReads,
                   raised, lastSave>>

\* self.db = get_db(): initialization is tried again when it has not succeeded.
get_db ==
    /\ pc = "get_db"
    /\ IF ~fbInitialized
       THEN \E succeeds \in BOOLEAN : initialize_firebase(succeeds)
       ELSE UNCHANGED <<fbDb, fbInitialized>>
    /\ db' = fbDb'
    /\ pc' = "load"
    /\ UNCHANGED <<env, remoteDoc, doc, config, source, remoteFailure, readAttempts,
                   envReads, raised, lastSave>>

\* A plausible slip: a read that raised is tried once more.
TryLoadRemoteRetries(handle, readRaises, remote) ==
    IF handle = "None"
    THEN [loaded |-> FALSE, cfg |-> SchemaDefaults, failure |-> "no_db", attempts |-> 0]
    ELSE IF readRaises
    THEN [loaded |-> FALSE, cfg |-> SchemaDefaults, failure |-> "read_raised", attempts |-> 2]
    ELSE IF remote = <<>>
    THEN [loaded |-> FALSE, cfg |-> SchemaDefaults, failure |-> "not_found", attempts |-> 1]
    ELSE IF ~TradingConfig(remote[1]).ok
    THEN [loaded |-> FALSE, cfg |-> SchemaDefaults, failure |-> "invalid", attempts |-> 1]
    ELSE [loaded |-> TRUE, cfg |-> TradingConfig(remote[1]).cfg, failure |-> "none",
          attempts |-> 1]

\* The first try block of _load_config: one read when there is a handle; the
\* config is set only when the document exists and validates, every exception
\* is caught.
TryLoadRemote(handle, readRaises, remote) ==
    IF handle = "None"
    THEN [loaded |-> FALSE, cfg |-> SchemaDefaults, failure |-> "no_db", attempts |-> 0]
    ELSE IF readRaises
    THEN [loaded |-> FALSE, cfg |-> SchemaDefaults, failure |-> "read_raised", attempts |-> 1]
    ELSE IF remote = <<>>
    THEN [loaded |-> FALSE, cfg |-> SchemaDefaults, failure |-> "not_found", attempts |-> 1]
    ELSE IF ~TradingConfig(remote[1]).ok
    THEN [loaded |-> FALSE, cfg |-> SchemaDefaults, failure |-> "invalid", attempts |-> 1]
    ELSE [loaded |-> TRUE, cfg |-> TradingConfig(remote[1]).cfg, failure |-> "none",
          attempts |-> 1]

LoadRemote ==
    /\ pc = "load"
    /\ \E readRaises \in BOOLEAN :
         LET r == TryLoadRemote(db, readRaises, remoteDoc)
         IN /\ readAttempts' = readAttempts + r.attempts
            /\ doc' = IF db # "None" /\ ~readRaises THEN remoteDoc ELSE <<>>
            /\ remoteFailure' = r.failure
            /\ IF r.loaded
               THEN /\ config' = <<r.cfg>>
                    /\ source' = "remote"
                    /\ pc' = "ready"
               ELSE /\ UNCHANGED <<config, source>>
                    /\ pc' = "env"
    /\ UNCHANGED <<env, remoteDoc, fbInitialized, fbDb, db, envReads, raised, lastSave>>

LoadEnv ==
    /\ pc = "env"
    /\ LET r == LoadFromEnv(env)
       IN /\ envReads' = envReads + r.reads
          /\ IF r.ok
             THEN /\ config' = <<r.cfg>>
                  /\ source' = "env"
                  /\ raised' = "none"
                  /\ pc' = "ready"
             ELSE /\ UNCHANGED <<config, source>>
                  /\ raised' = r.exc
                  /\ pc' = "failed"
    /\ UNCHANGED <<env, remoteDoc, fbInitialized, fbDb, db, doc, remoteFailure,
                   readAttempts, lastSave>>

\* A plausible slip: set(config_data, merge=True).
DocumentSetMerges(old, data) == IF old = <<>> THEN <<data>> ELSE <<data @@ old[1]>>

\* doc_ref.set(config_data): the document becomes config_data.
DocumentSet(old, data) == <<data>>

\* A plausible slip: save_config also installs the saved mapping as the config.
save_configReloads ==
    /\ pc = "ready"
    /\ \E data \in SaveData :
         /\ db # "None"
         /\ remoteDoc' = DocumentSet(remoteDoc, data)
         /\ config' = IF TradingConfig(data).ok THEN <<TradingConfig(data).cfg>> ELSE config
         /\ lastSave' = [called |-> TRUE, data |-> data, attempts |-> 1,
                         written |-> TRUE, outcome |-> "returned"]
    /\ UNCHANGED <<pc, env, fbInitialized, fbDb, db, doc, source, remoteFailure,
                   readAttempts, envReads, raised>>

\* save_config(config_data): nothing without a handle; otherwise one set(),
\* whose exception is caught (the write may or may not have been applied).
save_config ==
    /\ pc = "ready"
    /\ \E data \in SaveData, writeRaises \in BOOLEAN, applied \in BOOLEAN :
         /\ (db = "None") => (~writeRaises /\ ~applied)
         /\ (db # "None" /\ ~writeRaises) => applied
         /\ remoteDoc' = IF applied THEN DocumentSet(remoteDoc, data) ELSE remoteDoc
         /\ lastSave' = [called |-> TRUE, data |-> data,
                         attempts |-> IF db = "None" THEN 0 ELSE 1,
                         written |-> db # "None" /\ ~writeRaises,
                         outcome |-> "returned"]
    /\ UNCHANGED <<pc, env, fbInitialized, fbDb, db, doc, config, source, remoteFailure,
                   readAttempts, envReads, raised>>

\* Another client of the store replaces or deletes the document while the
\* manager lives (before the read, the initial document stands for it).
RemoteChange ==
    /\ pc = "ready"
    /\ \E r \in RemoteStates : r # remoteDoc /\ remoteDoc' = r
    /\ lastSave' = NoSave
    /\ UNCHANGED <<pc, env, fbInitialized, fbDb, db, doc, config, source, remoteFailure,
                   readAttempts, envReads, raised>>

Next ==
    \/ FirebaseConfigInit
    \/ get_db
    \/ LoadRemote
    \/ LoadEnv
    \/ save_config
    \/ RemoteChange

Spec == Init /\ [][Next]_vars

----------------------------------------------------------------------------
\* Vocabulary of the properties, stated apart from the operators above.

Digits == {"0", "1", "2", "3", "4", "5", "6", "7", "8", "9"}

\* cs is an integer numeral: blanks around an optionally signed run of digits
\* in which single underscores may separate digits.
LooksInteger(cs) ==
    \E i \in 1..Len(cs), j \in 1..Len(cs) :
        /\ i <= j
        /\ \A k \in 1..Len(cs) : (k < i \/ k > j) => cs[k] = " "
        /\ LET b == IF cs[i] \in {"+", "-"} THEN i + 1 ELSE i
           IN /\ b <= j
              /\ cs[b] \in Digits
              /\ cs[j] \in Digits
              /\ \A k \in b..j : cs[k] \in Digits \cup {"_"}
              /\ \A k \in b..(j - 1) : ~(cs[k] = "_" /\ cs[k + 1] = "_")

Resolved == pc \in {"ready", "failed"}

\* The document satisfies the TradingConfig schema.
DocValid(d) ==
    /\ "mode" \in DOMAIN d => d["mode"].t = "str" /\ d["mode"].s \in {"paper", "live", "backtest"}
    /\ "exchange" \in DOMAIN d =>
          d["exchange"].t = "str" /\ d["exchange"].s \in {"binance", "coinbase", "kraken", "bybit"}
    /\ "api_key" \in DOMAIN d => d["api_key"].t \in {"none", "str"}
    /\ "api_secret" \in DOMAIN d => d["api_secret"].t \in {"none", "str"}
    /\ "symbols" \in DOMAIN d => d["symbols"].t = "list"
    /\ "update_interval" \in DOMAIN d =>
          \/ d["update_interval"].t = "int"
          \/ d["update_interval"].t = "str" /\ LooksInteger(StrChars(d["update_interval"]))

\* C1: when the handle is available and the document read exists and is valid,
\* the resolved config is that document's fields (fields it leaves out at the
\* schema defaults) and no configuration variable of the environment is read.
C1_RemoteDocumentWins ==
    /\ (Resolved /\ db = "client" /\ doc # <<>> /\ DocValid(doc[1])) => source = "remote"
    /\ source = "remote" =>
         LET d == doc[1]
             c == config[1]
         IN /\ pc = "ready"
            /\ envReads = 0
            /\ c.mode = IF "mode" \in DOMAIN d THEN d["mode"].s ELSE "paper"
            /\ c.exchange = IF "exchange" \in DOMAIN d THEN d["exchange"].s ELSE "binance"
            /\ c.api_key = IF "api_key" \in DOMAIN d THEN d["api_key"] ELSE NoneV
            /\ c.api_secret = IF "api_secret" \in DOMAIN d THEN d["api_secret"] ELSE NoneV
            /\ c.symbols = IF "symbols" \in DOMAIN d THEN d["symbols"].l
                           ELSE <<"BTC/USDT", "ETH/USDT">>
            /\ "update_interval" \notin DOMAIN d => c.update_interval = 60
            /\ ("update_interval" \in DOMAIN d /\ d["update_interval"].t = "int")
                   => c.update_interval = d["update_interval"].n
            /\ ("update_interval" \in DOMAIN d /\ d["update_interval"] = Txt(<<"3", "0">>))
                   => c.update_interval = 30

\* A document that leaves fields out was loaded although the environment sets
\* variables, malformed ones included.
C1_Witness ==
    /\ source = "remote"
    /\ doc = <<("mode" :> Str("backtest"))>>
    /\ env.TRADING_MODE = <<"bogus">>
    /\ env.SYMBOLS = <<JsonOpenList>>
    /\ config[1].mode = "backtest"

\* C2: whatever makes the remote lookup fail (no handle, the read raising, no
\* document, an invalid document), the failure does not leave resolution: the
\* environment fallback runs, and the document is read at most once.
C2_RemoteFailureRecovered ==
    /\ readAttempts <= 1
    /\ remoteFailure # "none" =>
         /\ pc \in {"env", "ready", "failed"}
         /\ source # "remote"
         /\ Resolved => envReads >= 5
         /\ pc = "ready" => source = "env"
    /\ pc = "failed" => remoteFailure # "none" /\ envReads >= 5
    /\ (pc \in {"env", "ready", "failed"} /\ remoteFailure = "none") => source = "remote"

\* An invalid stored document was read once and the config came from the
\* environment.
C2_Witness ==
    /\ remoteFailure = "invalid"
    /\ readAttempts = 1
    /\ pc = "ready"
    /\ source = "env"

NamedOrDefault(v, default) == IF v = <<>> THEN default ELSE v[1]

\* C3: a config resolved by the fallback has, field by field, the value of the
\* environment variable when it is set and the hardcoded default otherwise;
\* with only TRADING_MODE=live and SYMBOLS=["ETH/USDT"] it is mode=live,
\* symbols=["ETH/USDT"] and defaults elsewhere.
C3_EnvFallbackValues ==
    /\ source = "env" =>
         LET c == config[1]
             u == env.UPDATE_INTERVAL
         IN /\ c.mode = NamedOrDefault(env.TRADING_MODE, "paper")
            /\ c.exchange = NamedOrDefault(env.EXCHANGE, "binance")
            /\ c.api_key = IF env.API_KEY = <<>> THEN NoneV ELSE Str(env.API_KEY[1])
            /\ c.api_secret = IF env.API_SECRET = <<>> THEN NoneV ELSE Str(env.API_SECRET[1])
            /\ env.SYMBOLS = <<>> => c.symbols = <<"BTC/USDT">>
            /\ env.SYMBOLS = <<"[\"ETH/USDT\"]">> => c.symbols = <<"ETH/USDT">>
            /\ u = <<>> => c.update_interval = 60
            /\ u # <<>> => LooksInteger(u[1])
            /\ u = << <<"0">> >> => c.update_interval = 0
            /\ u = << <<"7">> >> => c.update_interval = 7
            /\ u = << <<"7", "0">> >> => c.update_interval = 70
            /\ u = << <<"0", "7">> >> => c.update_interval = 7
            /\ u = << <<"-", "7">> >> => c.update_interval = -7
            /\ u = << <<" ", "7">> >> => c.update_interval = 7
            /\ u = << <<"7", " ">> >> => c.update_interval = 7
    /\ ( /\ Resolved
         /\ remoteFailure # "none"
         /\ env = [TRADING_MODE |-> <<"live">>, EXCHANGE |-> <<>>, API_KEY |-> <<>>,
                   API_SECRET |-> <<>>, SYMBOLS |-> <<"[\"ETH/USDT\"]">>,
                   UPDATE_INTERVAL |-> <<>>] )
       => config = << [mode |-> "live", exchange |-> "binance", api_key |-> NoneV,
                       api_secret |-> NoneV, symbols |-> <<"ETH/USDT">>,
                       update_interval |-> 60] >>

\* The fallback ran with only TRADING_MODE=live and SYMBOLS=["ETH/USDT"] set.
C3_Witness ==
    /\ source = "env"
    /\ remoteFailure = "no_db"
    /\ env.TRADING_MODE = <<"live">>
    /\ env.SYMBOLS = <<"[\"ETH/USDT\"]">>
    /\ env.EXCHANGE = <<>>
    /\ env.UPDATE_INTERVAL = <<>>
    /\ config[1].symbols = <<"ETH/USDT">>

\* The environment carries a value the fallback cannot accept.
EnvInvalid(e) ==
    \/ e.SYMBOLS = <<"[\"ETH/USDT\"">>
    \/ e.TRADING_MODE # <<>> /\ e.TRADING_MODE[1] \notin {"paper", "live", "backtest"}
    \/ e.EXCHANGE # <<>> /\ e.EXCHANGE[1] \notin {"binance", "coinbase", "kraken", "bybit"}
    \/ e.UPDATE_INTERVAL # <<>> /\ ~LooksInteger(e.UPDATE_INTERVAL[1])

\* C4: when the remote lookup failed and the environment's values are invalid,
\* resolution ends with an exception leaving the constructor and the config is
\* left unset.
C4_InvalidEnvIsFatal ==
    /\ (Resolved /\ remoteFailure # "none" /\ EnvInvalid(env)) =>
          /\ pc = "failed"
          /\ raised \in {"JSONDecodeError", "ValueError", "ValidationError"}
          /\ config = <<>>
    /\ pc = "failed" => config = <<>> /\ raised # "none"
    /\ pc = "ready" => raised = "none"

\* Malformed SYMBOLS JSON with no store handle ended resolution in an error.
C4_Witness ==
    /\ pc = "failed"
    /\ remoteFailure = "no_db"
    /\ env.SYMBOLS = <<"[\"ETH/USDT\"">>
    /\ raised = "JSONDecodeError"
    /\ config = <<>>

\* C5: every resolved config has an enumerated mode and exchange and an
\* update_interval greater than 0.
C5_ResolvedConfigInvariant ==
    config # <<>> =>
        /\ config[1].mode \in {"paper", "live", "backtest"}
        /\ config[1].exchange \in {"binance", "coinbase", "kraken", "bybit"}
        /\ config[1].update_interval > 0

\* C6: a save_config call returns normally whatever the write does, makes at
\* most one write attempt, and after a successful write the stored document is
\* config_data itself.
C6_SaveBestEffort ==
    lastSave.called =>
        /\ lastSave.outcome = "returned"
        /\ lastSave.attempts <= 1
        /\ db = "None" => lastSave.attempts = 0 /\ ~lastSave.written
        /\ lastSave.written => remoteDoc = <<lastSave.data>>

\* A successful save that replaced a stored document.
C6_Witness ==
    /\ lastSave.called
    /\ lastSave.written
    /\ lastSave.attempts = 1
    /\ doc # <<>>
    /\ remoteDoc = <<("mode" :> Str("backtest"))>>

\* C7: once construction has resolved the config, no step changes it.
C7_ConfigFixedForLifetime == [][pc = "ready" => config' = config]_vars

\* A save was written whose mapping differs from the manager's config.
C7_Witness ==
    /\ pc = "ready"
    /\ lastSave.written
    /\ lastSave.data = ("mode" :> Str("backtest"))
    /\ config[1].mode = "live"

====
